---- MODULE Spec2Model ----
(***************************************************************************)
(* Model of FunctionDocEntry::parse (src/src/doc_entry/function.rs).       *)
(* One call of parse is followed step by step: construction of the entry,  *)
(* one step per tag of the dispatch loop (one action per match arm), the   *)
(* loop that turns the unused tags into diagnostics, and the two returns.  *)
(***************************************************************************)
EXTENDS Integers, Sequences, FiniteSets, TLC

\* ---------------------------------------------------------------- bounds
MaxLen == 3

\* ------------------------------------------------------------ tag model
\* Variants of Tag that have an arm of their own in the match of parse.
PayloadKinds == {"Param", "Return", "Deprecated", "Since", "Custom", "Error"}

MarkerKinds == {"Private", "Unreleased", "Yields", "Ignore", "Server", "Client"}

AcceptSet == PayloadKinds \cup MarkerKinds

\* Variants of Tag that reach the wildcard arm.
OtherKinds == {"Class", "Property"}

Kinds == AcceptSet \cup OtherKinds

\* The payload texts a tag of each kind is drawn with.
ValsOf(kind) ==
    CASE kind = "Since"      -> {"1.0", "2.0"}
      [] kind = "Param"      -> {"a"}
      [] kind = "Return"     -> {"x"}
      [] kind = "Deprecated" -> {"d"}
      [] kind = "Custom"     -> {"c"}
      [] kind = "Error"      -> {"e"}
      [] OTHER               -> {"-"}

TagChoices == {[kind |-> k, val |-> v] : <<k, v>> \in {kv \in Kinds \X {"1.0", "2.0", "a", "x", "d", "c", "e", "-"} : kv[2] \in ValsOf(kv[1])}}

\* A doc comment's tags, in source order; span is the tag's place in the source.
Spanned(f) == [n \in DOMAIN f |-> [kind |-> f[n].kind, val |-> f[n].val, span |-> n]]

\* The value a payload-carrying arm binds (ParamTag, ReturnTag, ...).
Payload(tag) == [val |-> tag.val, span |-> tag.span]

None == [tag |-> "None"]

Some(x) == [tag |-> "Some", v |-> x]

Realms == {"Server", "Client"}

FunctionTypes == {"Method", "Static"}

UnusedMessage == "This tag is unused by function doc entries."

\* Tag::diagnostic(text): a diagnostic that refers to the tag and carries text.
TagDiagnostic(tag, text) == [tag |-> tag, message |-> text]

\* Diagnostics::from(vec): the collection holding the diagnostics of vec in order.
DiagnosticsFrom(vec) == vec

Ok(entry) == [tag |-> "Ok", entry |-> entry]

Err(diags) == [tag |-> "Err", diagnostics |-> diags]

Panic == [tag |-> "Panic"]

NoEntry == [tag |-> "Unbuilt"]

\* ---------------------------------------------------------------- state
VARIABLES args, function_type, pc, doc_entry, unused_tags, i, diagnostics, j, result

vars == <<args, function_type, pc, doc_entry, unused_tags, i, diagnostics, j, result>>

Init ==
    /\ \E n \in 0..MaxLen : \E f \in [1..n -> TagChoices] : \E w \in {None, Some("Class")} :
          args = [name |-> "f", desc |-> "text", within |-> w, tags |-> Spanned(f)]
    /\ function_type \in FunctionTypes
    /\ pc = "construct"
    /\ doc_entry = NoEntry
    /\ unused_tags = <<>>
    /\ i = 0
    /\ diagnostics = <<>>
    /\ j = 0
    /\ result = None

\* ------------------------------------------------------- construction
ConstructWrongDefaults ==
    /\ pc = "construct"
    /\ args.within # None
    /\ doc_entry' = [name |-> args.name, desc |-> args.desc, within |-> args.within.v,
                     function_type |-> "Method",
                     since |-> None, deprecated |-> None,
                     params |-> <<>>, returns |-> <<>>, tags |-> <<>>, errors |-> <<>>,
                     realm |-> {}, private |-> FALSE, unreleased |-> FALSE,
                     yields |-> FALSE, ignore |-> FALSE]
    /\ unused_tags' = <<>>
    /\ pc' = "loop"
    /\ UNCHANGED <<args, function_type, i, diagnostics, j, result>>

Construct ==
    /\ pc = "construct"
    /\ args.within # None
    /\ doc_entry' = [name |-> args.name, desc |-> args.desc, within |-> args.within.v,
                     function_type |-> function_type,
                     since |-> None, deprecated |-> None,
                     params |-> <<>>, returns |-> <<>>, tags |-> <<>>, errors |-> <<>>,
                     realm |-> {}, private |-> FALSE, unreleased |-> FALSE,
                     yields |-> FALSE, ignore |-> FALSE]
    /\ unused_tags' = <<>>
    /\ pc' = "loop"
    /\ UNCHANGED <<args, function_type, i, diagnostics, j, result>>

ConstructPanicAsErr ==
    /\ pc = "construct"
    /\ args.within = None
    /\ pc' = "done"
    /\ result' = Err(DiagnosticsFrom(<<>>))
    /\ UNCHANGED <<args, function_type, doc_entry, unused_tags, i, diagnostics, j>>

\* within.unwrap() on None panics while the entry is being built.
ConstructPanic ==
    /\ pc = "construct"
    /\ args.within = None
    /\ pc' = "panicked"
    /\ result' = Panic
    /\ UNCHANGED <<args, function_type, doc_entry, unused_tags, i, diagnostics, j>>

\* ------------------------------------------------------ dispatch loop
\* The loop is at a tag of the given kind: `for tag in tags { match tag {`.
AtTag(kind) ==
    /\ pc = "loop"
    /\ i < Len(args.tags)
    /\ args.tags[i + 1].kind = kind

tag == args.tags[i + 1]

\* What every arm leaves alone besides the entry and the unused buffer.
Advance ==
    /\ i' = i + 1
    /\ UNCHANGED <<args, function_type, pc, diagnostics, j, result>>

ParamArmPrepend ==
    /\ AtTag("Param")
    /\ doc_entry' = [doc_entry EXCEPT !.params = <<Payload(tag)>> \o @]
    /\ UNCHANGED unused_tags
    /\ Advance

ParamArm ==
    /\ AtTag("Param")
    /\ doc_entry' = [doc_entry EXCEPT !.params = Append(@, Payload(tag))]
    /\ UNCHANGED unused_tags
    /\ Advance

ReturnArm ==
    /\ AtTag("Return")
    /\ doc_entry' = [doc_entry EXCEPT !.returns = Append(@, Payload(tag))]
    /\ UNCHANGED unused_tags
    /\ Advance

DeprecatedArm ==
    /\ AtTag("Deprecated")
    /\ doc_entry' = [doc_entry EXCEPT !.deprecated = Some(Payload(tag))]
    /\ UNCHANGED unused_tags
    /\ Advance

SinceArmFirstWins ==
    /\ AtTag("Since")
    /\ doc_entry' = [doc_entry EXCEPT !.since = IF @ = None THEN Some(tag.val) ELSE @]
    /\ UNCHANGED unused_tags
    /\ Advance

\* since_tag.version.to_string(): the version text alone, without the tag's span.
SinceArm ==
    /\ AtTag("Since")
    /\ doc_entry' = [doc_entry EXCEPT !.since = Some(tag.val)]
    /\ UNCHANGED unused_tags
    /\ Advance

CustomArm ==
    /\ AtTag("Custom")
    /\ doc_entry' = [doc_entry EXCEPT !.tags = Append(@, Payload(tag))]
    /\ UNCHANGED unused_tags
    /\ Advance

ErrorArm ==
    /\ AtTag("Error")
    /\ doc_entry' = [doc_entry EXCEPT !.errors = Append(@, Payload(tag))]
    /\ UNCHANGED unused_tags
    /\ Advance

PrivateArmToggle ==
    /\ AtTag("Private")
    /\ doc_entry' = [doc_entry EXCEPT !.private = ~@]
    /\ UNCHANGED unused_tags
    /\ Advance

PrivateArm ==
    /\ AtTag("Private")
    /\ doc_entry' = [doc_entry EXCEPT !.private = TRUE]
    /\ UNCHANGED unused_tags
    /\ Advance

UnreleasedArm ==
    /\ AtTag("Unreleased")
    /\ doc_entry' = [doc_entry EXCEPT !.unreleased = TRUE]
    /\ UNCHANGED unused_tags
    /\ Advance

YieldsArmAlsoIgnore ==
    /\ AtTag("Yields")
    /\ doc_entry' = [doc_entry EXCEPT !.yields = TRUE, !.ignore = TRUE]
    /\ UNCHANGED unused_tags
    /\ Advance

YieldsArm ==
    /\ AtTag("Yields")
    /\ doc_entry' = [doc_entry EXCEPT !.yields = TRUE]
    /\ UNCHANGED unused_tags
    /\ Advance

IgnoreArm ==
    /\ AtTag("Ignore")
    /\ doc_entry' = [doc_entry EXCEPT !.ignore = TRUE]
    /\ UNCHANGED unused_tags
    /\ Advance

\* BTreeSet::insert: the set gains the element unless it holds it already.
BTreeSetInsert(set, x) == set \cup {x}

ServerArmInsertsClient ==
    /\ AtTag("Server")
    /\ doc_entry' = [doc_entry EXCEPT !.realm = BTreeSetInsert(@, "Client")]
    /\ UNCHANGED unused_tags
    /\ Advance

ServerArm ==
    /\ AtTag("Server")
    /\ doc_entry' = [doc_entry EXCEPT !.realm = BTreeSetInsert(@, "Server")]
    /\ UNCHANGED unused_tags
    /\ Advance

ClientArm ==
    /\ AtTag("Client")
    /\ doc_entry' = [doc_entry EXCEPT !.realm = BTreeSetInsert(@, "Client")]
    /\ UNCHANGED unused_tags
    /\ Advance

WildcardArmShortCircuit ==
    /\ pc = "loop"
    /\ i < Len(args.tags)
    /\ tag.kind \notin AcceptSet
    /\ unused_tags' = Append(unused_tags, tag)
    /\ i' = i + 1
    /\ pc' = "done"
    /\ result' = Err(DiagnosticsFrom(<<TagDiagnostic(tag, UnusedMessage)>>))
    /\ UNCHANGED <<args, function_type, doc_entry, diagnostics, j>>

WildcardArmKeepsOne ==
    /\ pc = "loop"
    /\ i < Len(args.tags)
    /\ tag.kind \notin AcceptSet
    /\ unused_tags' = <<tag>>
    /\ UNCHANGED doc_entry
    /\ Advance

\* `_ => unused_tags.push(tag)`
WildcardArm ==
    /\ pc = "loop"
    /\ i < Len(args.tags)
    /\ tag.kind \notin AcceptSet
    /\ unused_tags' = Append(unused_tags, tag)
    /\ UNCHANGED doc_entry
    /\ Advance

\* ---------------------------------------------------- after the loop
\* The loop is over and unused_tags is not empty: `let mut diagnostics = Vec::new()`.
BeginDiagnostics ==
    /\ pc = "loop"
    /\ i = Len(args.tags)
    /\ unused_tags # <<>>
    /\ diagnostics' = <<>>
    /\ j' = 0
    /\ pc' = "diagnostics"
    /\ UNCHANGED <<args, function_type, doc_entry, unused_tags, i, result>>

PushDiagnosticInFront ==
    /\ pc = "diagnostics"
    /\ j < Len(unused_tags)
    /\ diagnostics' = <<TagDiagnostic(unused_tags[j + 1], UnusedMessage)>> \o diagnostics
    /\ j' = j + 1
    /\ UNCHANGED <<args, function_type, pc, doc_entry, unused_tags, i, result>>

\* `for tag in unused_tags { diagnostics.push(tag.diagnostic(..)) }`, one tag.
PushDiagnostic ==
    /\ pc = "diagnostics"
    /\ j < Len(unused_tags)
    /\ diagnostics' = Append(diagnostics, TagDiagnostic(unused_tags[j + 1], UnusedMessage))
    /\ j' = j + 1
    /\ UNCHANGED <<args, function_type, pc, doc_entry, unused_tags, i, result>>

ReturnErr ==
    /\ pc = "diagnostics"
    /\ j = Len(unused_tags)
    /\ result' = Err(DiagnosticsFrom(diagnostics))
    /\ pc' = "done"
    /\ UNCHANGED <<args, function_type, doc_entry, unused_tags, i, diagnostics, j>>

ReturnOk ==
    /\ pc = "loop"
    /\ i = Len(args.tags)
    /\ unused_tags = <<>>
    /\ result' = Ok(doc_entry)
    /\ pc' = "done"
    /\ UNCHANGED <<args, function_type, doc_entry, unused_tags, i, diagnostics, j>>

Next ==
    \/ Construct
    \/ ConstructPanic
    \/ ParamArm
    \/ ReturnArm
    \/ DeprecatedArm
    \/ SinceArm
    \/ CustomArm
    \/ ErrorArm
    \/ PrivateArm
    \/ UnreleasedArm
    \/ YieldsArm
    \/ IgnoreArm
    \/ ServerArm
    \/ ClientArm
    \/ WildcardArm
    \/ BeginDiagnostics
    \/ PushDiagnostic
    \/ ReturnErr
    \/ ReturnOk

Spec == Init /\ [][Next]_vars

\* ------------------------------------------------- vocabulary of the claims
\* The tags consumed so far.
Seen == SubSeq(args.tags, 1, i)

OfKind(s, kind) == SelectSeq(s, LAMBDA t : t.kind = kind)

PayloadsOfKind(s, kind) == [n \in 1..Len(OfKind(s, kind)) |-> Payload(OfKind(s, kind)[n])]

HasKind(s, kind) == \E n \in 1..Len(s) : s[n].kind = kind

Offending(s) == SelectSeq(s, LAMBDA t : t.kind \notin AcceptSet)

AllAccepted == \A n \in 1..Len(args.tags) : args.tags[n].kind \in AcceptSet

Built == pc \in {"loop", "diagnostics", "done"}

Returned == pc = "done"

LastVersion(s) ==
    IF OfKind(s, "Since") = <<>> THEN None
    ELSE Some(OfKind(s, "Since")[Len(OfKind(s, "Since"))].val)

LastDeprecated(s) ==
    IF OfKind(s, "Deprecated") = <<>> THEN None
    ELSE Some(Payload(OfKind(s, "Deprecated")[Len(OfKind(s, "Deprecated"))]))

Range(s) == {s[n] : n \in 1..Len(s)}

\* The one field of the entry an accepted tag of this kind may touch.
FieldOf(kind) ==
    CASE kind = "Param"      -> "params"
      [] kind = "Return"     -> "returns"
      [] kind = "Deprecated" -> "deprecated"
      [] kind = "Since"      -> "since"
      [] kind = "Custom"     -> "tags"
      [] kind = "Error"      -> "errors"
      [] kind = "Private"    -> "private"
      [] kind = "Unreleased" -> "unreleased"
      [] kind = "Yields"     -> "yields"
      [] kind = "Ignore"     -> "ignore"
      [] kind = "Server"     -> "realm"
      [] kind = "Client"     -> "realm"
      [] OTHER               -> "none"

\* The entry shows the effect of the tag t.
Applied(t) ==
    CASE t.kind = "Param"      -> Payload(t) \in Range(doc_entry.params)
      [] t.kind = "Return"     -> Payload(t) \in Range(doc_entry.returns)
      [] t.kind = "Custom"     -> Payload(t) \in Range(doc_entry.tags)
      [] t.kind = "Error"      -> Payload(t) \in Range(doc_entry.errors)
      [] t.kind = "Deprecated" -> doc_entry.deprecated # None
      [] t.kind = "Since"      -> doc_entry.since # None
      [] t.kind = "Private"    -> doc_entry.private
      [] t.kind = "Unreleased" -> doc_entry.unreleased
      [] t.kind = "Yields"     -> doc_entry.yields
      [] t.kind = "Ignore"     -> doc_entry.ignore
      [] t.kind = "Server"     -> "Server" \in doc_entry.realm
      [] t.kind = "Client"     -> "Client" \in doc_entry.realm
      [] OTHER                 -> FALSE

\* ------------------------------------------------------------------ claims
\* C1: when every tag is in the accept-set and within is present, parse does
\* not panic and builds no diagnostics, and the Ok entry it returns has in
\* params, returns, tags and errors exactly the input tags of that kind, in
\* input order.
C1_AcceptedSequencesKeepOrder ==
    (AllAccepted /\ args.within # None) =>
        /\ pc \notin {"panicked", "diagnostics"}
        /\ Returned =>
            /\ result.tag = "Ok"
            /\ result.entry.params = PayloadsOfKind(args.tags, "Param")
            /\ result.entry.returns = PayloadsOfKind(args.tags, "Return")
            /\ result.entry.tags = PayloadsOfKind(args.tags, "Custom")
            /\ result.entry.errors = PayloadsOfKind(args.tags, "Error")

C1_Witness ==
    /\ Returned
    /\ AllAccepted
    /\ result.tag = "Ok"
    /\ Len(result.entry.params) = 2
    /\ Len(result.entry.returns) = 1
    /\ args.tags[2].kind = "Return"

\* C2: when parse returns for a sequence with k >= 1 tags outside the
\* accept-set, it returns Err with exactly k diagnostics, every offending tag
\* is referred to by exactly one of them, and no accepted tag by any.
C2_OneDiagnosticPerOffendingTag ==
    (Returned /\ Len(Offending(args.tags)) >= 1) =>
        /\ result.tag = "Err"
        /\ Len(result.diagnostics) = Len(Offending(args.tags))
        /\ \A n \in 1..Len(args.tags) :
              Cardinality({m \in 1..Len(result.diagnostics) :
                              result.diagnostics[m].tag = args.tags[n]})
                 = IF args.tags[n].kind \in AcceptSet THEN 0 ELSE 1

C2_Witness ==
    /\ Returned
    /\ result.tag = "Err"
    /\ Len(result.diagnostics) = 2
    /\ Len(args.tags) = 3
    /\ args.tags[2].kind \in AcceptSet

\* C3: the outcome is decided once and only after the whole sequence has been
\* consumed; a returned result is Err exactly when some tag is outside the
\* accept-set, and then it carries no entry although the accepted tags before
\* and after the offending one were applied.
C3_DecidedOnceAfterFullScan ==
    /\ []((result # None /\ result # Panic) => (i = Len(args.tags) /\ Returned))
    /\ []((Built /\ ~Returned) => result = None)
    /\ [][result # None => result' = result]_vars
    /\ [](Returned => (result.tag = "Err" <=> Len(Offending(args.tags)) >= 1))
    /\ [](Returned => (result.tag = "Ok" <=> AllAccepted))
    /\ []((Returned /\ ~AllAccepted) =>
            /\ "entry" \notin DOMAIN result
            /\ \A n \in 1..Len(args.tags) :
                  args.tags[n].kind \in AcceptSet => Applied(args.tags[n]))

C3_Witness ==
    /\ Returned
    /\ result.tag = "Err"
    /\ Len(args.tags) = 3
    /\ args.tags[1].kind = "Param"
    /\ args.tags[2].kind \notin AcceptSet
    /\ args.tags[3].kind = "Return"
    /\ Len(doc_entry.returns) = 1

\* C4: after any prefix of the tags, realm has at most 2 elements and holds
\* Server exactly when a Server tag was seen and Client exactly when a Client
\* tag was seen, whatever their order and number.
C4_RealmIsTheSetOfSeenMarkers ==
    Built =>
        /\ doc_entry.realm = {r \in Realms : HasKind(Seen, r)}
        /\ Cardinality(doc_entry.realm) <= 2

C4_Witness ==
    /\ Returned
    /\ Len(args.tags) = 3
    /\ args.tags[1].kind = "Server"
    /\ args.tags[2].kind = "Server"
    /\ args.tags[3].kind = "Client"
    /\ result.tag = "Ok"
    /\ result.entry.realm = {"Server", "Client"}

\* C5: each of private, unreleased, yields and ignore is false until its
\* marker is first seen and true from then on, so that it records only the
\* marker's presence; a marker tag never becomes an unused tag; a flag once
\* true stays true.
C5_MarkerFlagsArePresenceOnly ==
    /\ [](Built =>
            /\ doc_entry.private = HasKind(Seen, "Private")
            /\ doc_entry.unreleased = HasKind(Seen, "Unreleased")
            /\ doc_entry.yields = HasKind(Seen, "Yields")
            /\ doc_entry.ignore = HasKind(Seen, "Ignore")
            /\ \A n \in 1..Len(unused_tags) : unused_tags[n].kind \notin MarkerKinds)
    /\ []((Returned /\ result.tag = "Ok") => result.entry = doc_entry)
    /\ [][Built =>
            /\ doc_entry.private => doc_entry'.private
            /\ doc_entry.unreleased => doc_entry'.unreleased
            /\ doc_entry.yields => doc_entry'.yields
            /\ doc_entry.ignore => doc_entry'.ignore]_vars

C5_Witness ==
    /\ Returned
    /\ Len(args.tags) = 2
    /\ args.tags[1].kind = "Private"
    /\ args.tags[2].kind = "Private"
    /\ result.tag = "Ok"
    /\ result.entry.private

\* C6: a returned entry has in since the version text of the last Since tag
\* and in deprecated the payload of the last Deprecated tag, None when there
\* is no such tag; Since and Deprecated tags never become unused tags.
C6_LastOccurrenceWins ==
    /\ (Returned /\ result.tag = "Ok") =>
          /\ result.entry.since = LastVersion(args.tags)
          /\ result.entry.deprecated = LastDeprecated(args.tags)
    /\ \A n \in 1..Len(unused_tags) : unused_tags[n].kind \notin {"Since", "Deprecated"}
    /\ (Returned /\ result.tag = "Err") =>
          \A n \in 1..Len(result.diagnostics) :
              result.diagnostics[n].tag.kind \notin {"Since", "Deprecated"}

C6_Witness ==
    /\ Returned
    /\ Len(args.tags) = 3
    /\ args.tags[1] = [kind |-> "Since", val |-> "1.0", span |-> 1]
    /\ args.tags[2] = [kind |-> "Since", val |-> "2.0", span |-> 2]
    /\ args.tags[3].kind = "Deprecated"
    /\ result.tag = "Ok"
    /\ result.entry.since = Some("2.0")

\* C7: parse of an empty tag sequence returns Ok with the default entry:
\* empty params, returns, tags and errors, empty realm, all four flags false,
\* since and deprecated None, and name, desc, within and function_type as
\* supplied.
C7_EmptySequenceGivesDefaults ==
    (Len(args.tags) = 0 /\ args.within # None) =>
        /\ pc \notin {"panicked", "diagnostics"}
        /\ Returned =>
              result = Ok([name |-> args.name, desc |-> args.desc,
                           within |-> args.within.v, function_type |-> function_type,
                           since |-> None, deprecated |-> None,
                           params |-> <<>>, returns |-> <<>>, tags |-> <<>>,
                           errors |-> <<>>, realm |-> {},
                           private |-> FALSE, unreleased |-> FALSE,
                           yields |-> FALSE, ignore |-> FALSE])

C7_Witness ==
    /\ Returned
    /\ Len(args.tags) = 0
    /\ function_type = "Static"
    /\ result.tag = "Ok"

\* C8: a step of the loop consumes one tag; for an accepted tag it leaves the
\* unused buffer and every field but the tag's own unchanged, for any other
\* tag it appends the tag to the unused buffer and leaves the entry
\* unchanged. Hence every consumed tag is either applied to the entry or in
\* the unused buffer, never both.
C8_OneTagOneEffect ==
    /\ [][(pc = "loop" /\ i < Len(args.tags)) =>
            /\ i' = i + 1
            /\ IF args.tags[i + 1].kind \in AcceptSet
               THEN /\ unused_tags' = unused_tags
                    /\ DOMAIN doc_entry' = DOMAIN doc_entry
                    /\ \A f \in DOMAIN doc_entry \ {FieldOf(args.tags[i + 1].kind)} :
                          doc_entry'[f] = doc_entry[f]
               ELSE /\ doc_entry' = doc_entry
                    /\ unused_tags' = Append(unused_tags, args.tags[i + 1])]_vars
    /\ [](Built =>
            \A n \in 1..i :
                (args.tags[n] \in Range(unused_tags)) <=> ~Applied(args.tags[n]))

C8_Witness ==
    /\ pc = "loop"
    /\ i = 2
    /\ args.tags[1].kind \notin AcceptSet
    /\ args.tags[2].kind = "Yields"
    /\ doc_entry.yields
    /\ ~doc_entry.ignore
    /\ unused_tags = <<args.tags[1]>>

\* C9: the diagnostics of an Err are, in input order, one per tag outside the
\* accept-set: the n-th refers to the n-th such tag, and each carries the
\* message "This tag is unused by function doc entries.".
C9_DiagnosticsInInputOrder ==
    (Returned /\ result.tag = "Err") =>
        result.diagnostics =
            [n \in 1..Len(Offending(args.tags)) |->
                [tag |-> Offending(args.tags)[n],
                 message |-> "This tag is unused by function doc entries."]]

C9_Witness ==
    /\ Returned
    /\ result.tag = "Err"
    /\ Len(args.tags) = 3
    /\ args.tags[1].kind = "Class"
    /\ args.tags[3].kind = "Property"
    /\ args.tags[2].kind \in AcceptSet
    /\ result.diagnostics[2].tag = args.tags[3]

\* C10: with within absent parse panics while building the entry: no tag is
\* consumed, nothing is returned. An Err is returned only with within
\* present, and is a non-empty collection of unused-tag diagnostics for tags
\* outside the accept-set.
C10_MissingWithinPanics ==
    /\ args.within = None =>
          /\ pc \in {"construct", "panicked"}
          /\ i = 0
          /\ doc_entry = NoEntry
          /\ unused_tags = <<>>
          /\ diagnostics = <<>>
          /\ result \in {None, Panic}
          /\ pc = "panicked" <=> result = Panic
    /\ result = Panic => args.within = None
    /\ result \notin {None, Panic} =>
          /\ args.within # None
          /\ result.tag \in {"Ok", "Err"}
          /\ result.tag = "Err" =>
                /\ result.diagnostics # <<>>
                /\ \A n \in 1..Len(result.diagnostics) :
                      /\ result.diagnostics[n].message = UnusedMessage
                      /\ result.diagnostics[n].tag \in Range(args.tags)
                      /\ result.diagnostics[n].tag.kind \notin AcceptSet

C10_Witness ==
    /\ pc = "panicked"
    /\ args.within = None
    /\ Len(args.tags) = 2
    /\ args.tags[1].kind \notin AcceptSet
    /\ args.tags[2].kind = "Param"
    /\ result = Panic

====
